---- MODULE Spec2Model ----
(***************************************************************************)
(* Executive email assistant: the main graph of eaia/main/graph and its    *)
(* human-review nodes (human_inbox).  One run of the graph on one email.   *)
(*                                                                         *)
(* A message is a record                                                   *)
(*   [kind, id, content, calls, tcid]                                      *)
(* kind  : "ai" (AIMessage), "tool" (ToolMessage), "human" (HumanMessage)  *)
(* calls : the message's tool_calls, each [id, name, args]                 *)
(* tcid  : tool_call_id of a ToolMessage (0 otherwise)                     *)
(* The state's message list is merged by message id (the reducer the       *)
(* State schema attaches to "messages").                                   *)
(***************************************************************************)
EXTENDS Integers, Sequences, FiniteSets, TLC

\* ---------------------------------------------------------------- bounds
MaxDrafts == 2      \* executions of draft_response in one run
MaxHuman == 2       \* human responses in one run
MaxEmails == 2      \* emails processed into the memory store

\* ------------------------------------------------------------- constants
MaxTries == 5       \* draft_response: while i < 5

END == "END"

TriageValues == {"no", "email", "notify", "question"}

BaseTools ==
  {"NewEmailDraft", "ResponseEmailDraft", "Question", "MeetingAssistant",
   "SendCalendarInvite"}

MemoryTools == {"ManageMemory", "SearchMemory"}

\* a name the model makes up although no such tool was offered
UnknownTool == "functions:Question"

HumanReviewNodes == {"send_message", "send_email_draft", "notify", "send_cal_invite"}

\* contents the language model writes, and what the human types
DraftContents == {"draft"}
RewriteContents == {"draft", "rewritten"}
HumanTexts == {"feedback"}
EditedContents == {"edited"}

NoArgs == [content |-> "", ignore |-> FALSE]

\* the args of an email draft: new_recipients is a list, a JSON string of
\* one, or a string that is no JSON
Recipients == {"list", "json", "not json"}
DraftArgs(content, new_recipients) ==
  [content |-> content, ignore |-> FALSE, new_recipients |-> new_recipients]
IgnoreArgs == [content |-> "", ignore |-> TRUE]

NoResp == [node |-> "none", type |-> "none", args |-> NoArgs, text |-> ""]

EmptyId == 0        \* tool_call.get("id", "") of a message without tool calls
FooId == -1         \* notify: "id": "foo"
EmailKey == <<"email", 1>>      \* state["email"]["id"]

\* ------------------------------------------------------------- messages
Last(s) == s[Len(s)]

AIMessage(id, content, calls) ==
  [kind |-> "ai", id |-> id, content |-> content, calls |-> calls, tcid |-> 0]

ToolMessage(id, content, tcid) ==
  [kind |-> "tool", id |-> id, content |-> content, calls |-> << >>, tcid |-> tcid]

HumanMessage(id, content) ==
  [kind |-> "human", id |-> id, content |-> content, calls |-> << >>, tcid |-> 0]

ToolCall(id, name, args) == [id |-> id, name |-> name, args |-> args]

\* isinstance(m, (ToolMessage, HumanMessage, BaseMessage)): every message
\* class, AIMessage included, derives from BaseMessage
IsInstanceOfChecked(m) == m.kind \in {"tool", "human", "ai"}

IndexOfId(msgs, id) ==
  IF \E i \in 1..Len(msgs) : msgs[i].id = id
    THEN CHOOSE i \in 1..Len(msgs) : msgs[i].id = id
    ELSE 0

\* the reducer of State["messages"]: a message whose id is already in the
\* list replaces that entry in place, any other message is appended
AddOne(msgs, m) ==
  IF IndexOfId(msgs, m.id) # 0
    THEN [msgs EXCEPT ![IndexOfId(msgs, m.id)] = m]
    ELSE Append(msgs, m)

RECURSIVE add_messages(_, _)
add_messages(left, right) ==
  IF right = << >> THEN left
  ELSE add_messages(AddOne(left, Head(right)), Tail(right))

\* triage_input returns RemoveMessage(id=m.id) for every message of the
\* state (nothing when there is none): the reducer deletes those ids
triage_input(msgs) ==
  IF Len(msgs) > 0
    THEN SelectSeq(msgs, LAMBDA m : m.id \notin {msgs[i].id : i \in 1..Len(msgs)})
    ELSE msgs

\* --------------------------------------------------------------- routing
\* variant: "no" and "notify" swapped
route_after_triage_swapped(t) ==
  IF t = "email" THEN "draft_response"
  ELSE IF t = "no" THEN "notify"
  ELSE IF t = "notify" THEN "mark_as_read_node"
  ELSE IF t = "question" THEN "draft_response"
  ELSE "notify"

\* variant: an unknown triage value is treated as an email to answer
route_after_triage_default_draft(t) ==
  IF t = "no" THEN "mark_as_read_node"
  ELSE IF t = "notify" THEN "notify"
  ELSE "draft_response"

route_after_triage(t) ==
  IF t = "email" THEN "draft_response"
  ELSE IF t = "no" THEN "mark_as_read_node"
  ELSE IF t = "notify" THEN "notify"
  ELSE IF t = "question" THEN "draft_response"
  ELSE "notify"

\* variant: the number of tool calls is not checked
take_action_any_count(msgs) ==
  IF msgs = << >> THEN "bad_tool_name"
  ELSE IF Len(Last(msgs).calls) = 0 THEN "bad_tool_name"
  ELSE LET tool_name == Last(msgs).calls[1].name IN
    IF tool_name = "Question" THEN "send_message"
    ELSE IF tool_name = "ResponseEmailDraft" THEN "rewrite"
    ELSE IF tool_name = "Ignore" THEN "mark_as_read_node"
    ELSE IF tool_name = "MeetingAssistant" THEN "find_meeting_time"
    ELSE IF tool_name = "SendCalendarInvite" THEN "send_cal_invite"
    ELSE IF tool_name \in {"ManageMemory", "SearchMemory"} THEN "process_memory_node"
    ELSE "bad_tool_name"

take_action(msgs) ==
  IF msgs = << >> THEN "bad_tool_name"
  ELSE IF Len(Last(msgs).calls) # 1 THEN "bad_tool_name"
  ELSE LET tool_name == Last(msgs).calls[1].name IN
    IF tool_name = "Question" THEN "send_message"
    ELSE IF tool_name = "ResponseEmailDraft" THEN "rewrite"
    ELSE IF tool_name = "Ignore" THEN "mark_as_read_node"
    ELSE IF tool_name = "MeetingAssistant" THEN "find_meeting_time"
    ELSE IF tool_name = "SendCalendarInvite" THEN "send_cal_invite"
    ELSE IF tool_name \in {"ManageMemory", "SearchMemory"} THEN "process_memory_node"
    ELSE "bad_tool_name"

\* variant: a tool message ends the run instead of going back to the draft
enter_after_human_tool_ends(msgs, t) ==
  IF msgs = << >> THEN
    IF t = "notify" THEN "mark_as_read_node" ELSE "draft_response"
  ELSE IF Last(msgs).kind = "tool" THEN "mark_as_read_node"
  ELSE "draft_response"

enter_after_human(msgs, t) ==
  IF msgs = << >> THEN
    IF t = "notify" THEN "mark_as_read_node" ELSE "draft_response"
  ELSE IF IsInstanceOfChecked(Last(msgs)) THEN "draft_response"
  ELSE IF Last(msgs).calls = << >> THEN "draft_response"
  ELSE LET name == Last(msgs).calls[1].name IN
    IF name = "ResponseEmailDraft" THEN "send_email_node"
    ELSE IF name = "SendCalendarInvite" THEN "send_cal_invite_node"
    ELSE IF name = "Ignore" THEN "mark_as_read_node"
    ELSE IF name = "Question" THEN "draft_response"
    ELSE "draft_response"

\* ------------------------------------------------------------ plain nodes
\* name.replace(":", "")
StripColons(name) == IF name = UnknownTool THEN "functionsQuestion" ELSE name

HasCall(msgs) == msgs # << >> /\ Last(msgs).calls # << >>

\* The update each node returns for "messages"; id is a fresh uuid, ok tells
\* whether the mail/calendar API call of the node succeeded.
bad_tool_name(msgs, id) ==
  IF ~HasCall(msgs)
    THEN << ToolMessage(id, "An error occurred while processing the tool call.", id + 1) >>
    ELSE LET last == Last(msgs)
             call == last.calls[1]
             renamed == [last EXCEPT !.calls[1].name = StripColons(call.name)]
         IN << renamed, ToolMessage(id, "Could not find tool", call.id) >>

process_memory_node(msgs, id) ==
  IF ~HasCall(msgs)
    THEN << ToolMessage(id, "An error occurred while processing memory. Please try again.", id + 1) >>
    ELSE LET call == Last(msgs).calls[1] IN
      << ToolMessage(id,
           IF call.name = "ManageMemory" THEN "Memory stored successfully."
           ELSE IF call.name = "SearchMemory" THEN "Memory search completed."
           ELSE "Memory operation processed.",
           call.id) >>

send_cal_invite_node(msgs, id, ok) ==
  IF ~HasCall(msgs)
    THEN << ToolMessage(id, "An error occurred while sending the calendar invite.", id + 1) >>
    ELSE << ToolMessage(id,
              IF ok THEN "Sent calendar invite!"
              ELSE "Got the following error when sending a calendar invite",
              Last(msgs).calls[1].id) >>

\* _args["new_recipients"] is there and, when a string, json.loads reads it
Sendable(args) ==
  /\ "new_recipients" \in DOMAIN args
  /\ args.new_recipients # "not json"

\* what send_email_node hands to send_email: the content of the last
\* message's first tool call, when there is one and the call succeeds
send_email_node(msgs, ok) ==
  IF HasCall(msgs) /\ Sendable(Last(msgs).calls[1].args) /\ ok
    THEN << Last(msgs).calls[1].args.content >> ELSE << >>

mark_as_read_node(msgs, id, ok) ==
  IF ok /\ (msgs = << >> \/ HasCall(msgs))
    THEN << ToolMessage(id, "Email marked as read",
              IF msgs = << >> THEN id + 1 ELSE Last(msgs).calls[1].id) >>
    ELSE << ToolMessage(id, "An error occurred while marking the email as read.", id + 1) >>

find_meeting_time(msgs, id) ==
  IF ~HasCall(msgs) THEN << >>
  ELSE << ToolMessage(id, "meeting times", Last(msgs).calls[1].id) >>

rewrite(msgs, content) ==
  IF ~HasCall(msgs) THEN << >>
  ELSE LET last == Last(msgs) IN
    << [last EXCEPT !.content = content, !.calls[1].args.content = content] >>

\* ----------------------------------------------------- human-review nodes
\* variant: every node allows all four response types
Allowed_all_four(node) == {"ignore", "response", "edit", "accept"}

\* The interrupt config each node puts in its request: the response types
\* the human is offered there.
Allowed(node) ==
  IF node \in {"send_message", "notify"} THEN {"ignore", "response"}
  ELSE {"ignore", "response", "edit", "accept"}

\* the types a resuming client can send, one no node knows included
AnyResponseTypes == {"ignore", "response", "edit", "accept", "other"}

\* tool_calls[0] if tool_calls else {}, read with .get(..., default)
FirstCall(msgs) ==
  IF HasCall(msgs) THEN Last(msgs).calls[1] ELSE ToolCall(EmptyId, "", NoArgs)

\* What a node does once interrupt() has returned resp:
\*   raised  - ValueError("Unexpected response"), no update at all
\*   msgs    - the "messages" update it returns (<< >> for return None)
\*   save    - the status handed to save_email ("none": not called)
\*   process - process_email_for_memory is called
\*   run     - LGC.runs.create(None, "multi_reflection_graph", ...) is called
Outcome(raised, msgs, save, process, run) ==
  [raised |-> raised, msgs |-> msgs, save |-> save, process |-> process, run |-> run]

Raised == Outcome(TRUE, << >>, "none", FALSE, FALSE)

IgnoreMessage(msg_id, tool_call_id) ==
  AIMessage(msg_id, "", << ToolCall(tool_call_id, "Ignore", IgnoreArgs) >>)

send_message(msgs, resp, memory, id) ==
  LET call == FirstCall(msgs)
      msg_id == Last(msgs).id
  IN IF resp.type = "response" THEN
       Outcome(FALSE, << ToolMessage(id, resp.text, call.id) >>,
               IF memory THEN "email" ELSE "none", memory, memory)
     ELSE IF resp.type = "ignore" THEN
       Outcome(FALSE, << IgnoreMessage(msg_id, call.id) >>,
               IF memory THEN "no" ELSE "none", FALSE, FALSE)
     ELSE Raised

\* variant: an edit is saved but not reflected on
send_email_draft_no_run_on_edit(msgs, resp, memory, id) ==
  LET call == FirstCall(msgs)
      msg_id == Last(msgs).id
  IN IF resp.type = "response" THEN
       Outcome(FALSE, << ToolMessage(id, resp.text, call.id) >>,
               IF memory THEN "email" ELSE "none", memory, memory)
     ELSE IF resp.type = "ignore" THEN
       Outcome(FALSE, << IgnoreMessage(msg_id, call.id) >>,
               IF memory THEN "no" ELSE "none", FALSE, FALSE)
     ELSE IF resp.type = "edit" THEN
       Outcome(FALSE,
               << AIMessage(msg_id, resp.args.content,
                            << ToolCall(call.id, call.name, resp.args) >>) >>,
               IF memory THEN "email" ELSE "none", memory, FALSE)
     ELSE IF resp.type = "accept" THEN
       Outcome(FALSE, << >>, IF memory THEN "email" ELSE "none", memory, FALSE)
     ELSE Raised

send_email_draft(msgs, resp, memory, id) ==
  LET call == FirstCall(msgs)
      msg_id == Last(msgs).id
  IN IF resp.type = "response" THEN
       Outcome(FALSE, << ToolMessage(id, resp.text, call.id) >>,
               IF memory THEN "email" ELSE "none", memory, memory)
     ELSE IF resp.type = "ignore" THEN
       Outcome(FALSE, << IgnoreMessage(msg_id, call.id) >>,
               IF memory THEN "no" ELSE "none", FALSE, FALSE)
     ELSE IF resp.type = "edit" THEN
       Outcome(FALSE,
               << AIMessage(msg_id, resp.args.content,
                            << ToolCall(call.id, call.name, resp.args) >>) >>,
               IF memory THEN "email" ELSE "none", memory, memory)
     ELSE IF resp.type = "accept" THEN
       Outcome(FALSE, << >>, IF memory THEN "email" ELSE "none", memory, FALSE)
     ELSE Raised

\* variant: an ignored notification is saved as an email to answer
notify_ignore_saved_as_email(msgs, resp, memory, id) ==
  IF resp.type = "response" THEN
    Outcome(FALSE, << HumanMessage(id, resp.text) >>,
            IF memory THEN "email" ELSE "none", memory, memory)
  ELSE IF resp.type = "ignore" THEN
    Outcome(FALSE, << IgnoreMessage(id, FooId) >>,
            IF memory THEN "email" ELSE "none", FALSE, FALSE)
  ELSE Raised

notify(msgs, resp, memory, id) ==
  IF resp.type = "response" THEN
    Outcome(FALSE, << HumanMessage(id, resp.text) >>,
            IF memory THEN "email" ELSE "none", memory, memory)
  ELSE IF resp.type = "ignore" THEN
    Outcome(FALSE, << IgnoreMessage(id, FooId) >>,
            IF memory THEN "no" ELSE "none", FALSE, FALSE)
  ELSE Raised

InterruptedPrefix == "Error, user interrupted and gave this feedback: "

send_cal_invite(msgs, resp, memory, id) ==
  LET call == FirstCall(msgs)
      last == Last(msgs)
  IN IF resp.type = "response" THEN
       Outcome(FALSE, << ToolMessage(id, InterruptedPrefix \o resp.text, call.id) >>,
               IF memory THEN "email" ELSE "none", memory, memory)
     ELSE IF resp.type = "ignore" THEN
       Outcome(FALSE, << IgnoreMessage(last.id, call.id) >>,
               IF memory THEN "no" ELSE "none", FALSE, FALSE)
     ELSE IF resp.type = "edit" THEN
       Outcome(FALSE,
               << AIMessage(last.id, last.content,
                            << ToolCall(call.id, call.name, resp.args) >>) >>,
               IF memory THEN "email" ELSE "none", memory, memory)
     ELSE IF resp.type = "accept" THEN
       Outcome(FALSE, << >>, IF memory THEN "email" ELSE "none", memory, FALSE)
     ELSE Raised

HumanReview(node, msgs, resp, memory, id) ==
  IF node = "send_message" THEN send_message(msgs, resp, memory, id)
  ELSE IF node = "send_email_draft" THEN send_email_draft(msgs, resp, memory, id)
  ELSE IF node = "notify" THEN notify(msgs, resp, memory, id)
  ELSE send_cal_invite(msgs, resp, memory, id)

\* The part of a human-review node that runs before interrupt() returns:
\* get_config, reading the last tool call, building the request.  Nothing is
\* saved, processed, reflected on or returned there.
BeforeInterrupt_saves(node, msgs, memory) ==
  Outcome(FALSE, << >>, IF memory THEN "email" ELSE "none", FALSE, FALSE)

BeforeInterrupt(node, msgs, memory) == Outcome(FALSE, << >>, "none", FALSE, FALSE)

\* the HumanInterrupt request handed to interrupt()
Request(node, msgs) ==
  [action |-> IF node = "notify" THEN "Notify" ELSE FirstCall(msgs).name,
   args |-> IF node = "notify" THEN NoArgs ELSE FirstCall(msgs).args,
   allowed |-> Allowed(node)]

NoRequest == [action |-> "", args |-> NoArgs, allowed |-> {}]

\* ------------------------------------------------------------------ store
\* save_email: looks the email id up in (assistant_id, "triage_examples")
\* and, finding nothing under that key, puts the example under a new uuid.
save_email(examples, status, uuid) ==
  IF \E e \in examples : e.key = EmailKey
    THEN examples
    ELSE examples \cup {[key |-> <<"uuid", uuid>>, triage |-> status]}

\* process_email_for_memory: one put under (assistant_id, "email_memory"),
\* keyed by the email id
process_email_for_memory(email_memory) == email_memory \cup {EmailKey}

\* ------------------------------------------------------------------ config
\* The runtime config handed to a node: whether it has a "configurable"
\* entry, whether that entry has a "memory" key, and the key's value.
RuntimeConfig(configurable, hasMemory, value) ==
  [configurable |-> configurable, hasMemory |-> hasMemory, memory |-> value]

\* the configs a run of the graph is started with: "configurable" is there
RuntimeConfigs ==
  {RuntimeConfig(TRUE, FALSE, FALSE), RuntimeConfig(TRUE, TRUE, FALSE),
   RuntimeConfig(TRUE, TRUE, TRUE)}

\* every shape get_config accepts, a config without "configurable" included
AnyRuntimeConfigs ==
  RuntimeConfigs \cup {RuntimeConfig(FALSE, FALSE, FALSE)}

\* variant: the flag is off unless the runtime config turns it on
get_config_default_off(runtime_config) ==
  IF runtime_config.configurable /\ runtime_config.hasMemory
    THEN runtime_config.memory ELSE FALSE

\* get_config(...)["memory"]
get_config(runtime_config) ==
  IF runtime_config.configurable /\ runtime_config.hasMemory
    THEN runtime_config.memory ELSE TRUE

\* ---------------------------------------------------------- prompt store
\* Namespace (assistant_id,): the prompt texts draft_response reads and the
\* reflection graph rewrites.  A stored value is
\*   [item, hasData, data]: store.aget found an item / its value has a
\*   "data" field / that field.
PromptKeys ==
  {"schedule_preferences", "random_preferences", "response_preferences",
   "rewrite_instructions"}

\* the keys draft_response reads
DraftKeys == {"schedule_preferences", "random_preferences", "response_preferences"}

NoItem == [item |-> FALSE, hasData |-> FALSE, data |-> ""]
NoDataItem == [item |-> TRUE, hasData |-> FALSE, data |-> ""]
Data(d) == [item |-> TRUE, hasData |-> TRUE, data |-> d]

\* prompt_config[...]: the configured default of each key
Default(key) ==
  IF key = "schedule_preferences" THEN "config schedule_preferences"
  ELSE IF key = "random_preferences" THEN "config background_preferences"
  ELSE "config response_preferences"

\* result and "data" in result.value
HasData(v) == v.item /\ v.hasData

\* variant: the default is written whenever the stored text differs from it
draft_store_resets(prompts) ==
  [k \in PromptKeys |->
     IF k \in DraftKeys /\ prompts[k] # Data(Default(k))
       THEN Data(Default(k)) ELSE prompts[k]]

\* draft_response, store side: the namespace after the three lookups
draft_store(prompts) ==
  [k \in PromptKeys |->
     IF k \in DraftKeys /\ ~HasData(prompts[k])
       THEN Data(Default(k)) ELSE prompts[k]]

\* draft_response, prompt side: the three texts put into the prompt
draft_used(prompts) ==
  [k \in DraftKeys |->
     IF HasData(prompts[k]) THEN prompts[k].data ELSE Default(k)]

\* ------------------------------------------------------------- reflection
\* MEMORY_TO_UPDATE_KEYS
MemoryTypes == {"tone", "background", "email", "calendar"}

MEMORY_TO_UPDATE_KEYS(type) ==
  IF type = "tone" THEN "rewrite_instructions"
  ELSE IF type = "background" THEN "random_preferences"
  ELSE IF type = "email" THEN "response_preferences"
  ELSE "schedule_preferences"

\* the prompt_types the human-review nodes hand to multi_reflection_graph
PromptTypeLists ==
  {{"background"}, {"tone", "email", "background", "calendar"},
   {"email", "background", "calendar"}}

\* the reflection model's structured output (GeneralResponse)
NewPrompts == {"reflected"}
GeneralResponse(update_prompt, new_prompt) ==
  [update_prompt |-> update_prompt, new_prompt |-> new_prompt]

\* the record stored under (assistant_key, "memories", "system_prompts");
\* its key is built from prompt_key and the instructions of that key
PromptRecord(key, new_prompt) == [key |-> << "prompt", key >>, prompt |-> new_prompt]

Reflected(raised, newPrompts, newSysmem, aputs) ==
  [raised |-> raised, prompts |-> newPrompts, sysmem |-> newSysmem, aputs |-> aputs]

\* variant: the model's new_prompt is stored whatever update_prompt says
update_general_always(store, records, key, output) ==
  IF ~HasData(store[key]) THEN Reflected(TRUE, store, records, 0)
  ELSE Reflected(FALSE, [store EXCEPT ![key] = Data(output.new_prompt)],
                 {r \in records : r.key # << "prompt", key >>}
                   \cup {PromptRecord(key, output.new_prompt)}, 2)

\* update_general: reads the current prompt (a missing item or a value
\* without "data" raises before the model is asked), asks the model, and
\* stores the new prompt and a record of the update when update_prompt
update_general(store, records, key, output) ==
  IF ~HasData(store[key]) THEN Reflected(TRUE, store, records, 0)
  ELSE IF output.update_prompt
    THEN Reflected(FALSE, [store EXCEPT ![key] = Data(output.new_prompt)],
                   {r \in records : r.key # << "prompt", key >>}
                     \cup {PromptRecord(key, output.new_prompt)}, 2)
    ELSE Reflected(FALSE, store, records, 0)

NoReflect ==
  [n |-> 0, key |-> "", output |-> GeneralResponse(FALSE, ""), raised |-> FALSE,
   aputs |-> 0]

\* ----------------------------------------------------------------- memory
\* The memory store of memory-module.py.  A config carries an assistant id
\* and a user id, either of which may be missing; an item of the store is
\* [ns, key, value].
Missing == "<missing>"
MemoryConfig(assistant_id, user_id) == [assistant_id |-> assistant_id, user_id |-> user_id]
MemoryConfigs ==
  {MemoryConfig("a1", "u1"), MemoryConfig("a1", "u2"), MemoryConfig("a2", "u1"),
   MemoryConfig(Missing, Missing)}

\* config["configurable"].get(name, default)
Get(value, default) == IF value = Missing THEN default ELSE value

\* variant: the namespace does not depend on the user
get_memory_namespace_shared(cfg, store_type) ==
  << Get(cfg.assistant_id, "default"), store_type, "default_user" >>

\* get_memory_namespace
get_memory_namespace(cfg, store_type) ==
  << Get(cfg.assistant_id, "default"), store_type, Get(cfg.user_id, "default_user") >>

Item(ns, key, value) == [ns |-> ns, key |-> key, value |-> value]

\* store.aput: the item under (ns, key) is replaced
aput(store, ns, key, value) ==
  {i \in store : ~(i.ns = ns /\ i.key = key)} \cup {Item(ns, key, value)}

\* str(uuid.uuid4()): a key no item of the store has
uuid4(store) == << "uuid", Cardinality(store) + 1 >>

NamespaceStartsWith(ns, prefix) ==
  /\ Len(prefix) <= Len(ns)
  /\ \A i \in 1..Len(prefix) : ns[i] = prefix[i]

Min(a, b) == IF a < b THEN a ELSE b

\* store.asearch(prefix, query, limit): the possible answers, any `limit`
\* of the items under the prefix (all of them when there are fewer)
asearch(store, prefix, limit) ==
  LET found == {i \in store : NamespaceStartsWith(i.ns, prefix)}
  IN {S \in SUBSET found : Cardinality(S) = Min(limit, Cardinality(found))}

\* what the extraction models find in an email: contacts, preferences and
\* background memories
ContactNames == {"alice"}
PreferenceTypes == {"tone"}
Extraction(contacts, preferences, memories) ==
  [contacts |-> contacts, preferences |-> preferences, memories |-> memories]
Extractions ==
  {Extraction({}, {}, 0), Extraction(ContactNames, {}, 0),
   Extraction({}, PreferenceTypes, 0), Extraction(ContactNames, PreferenceTypes, 1)}

\* the content of a stored fact: what it is and the config it was
\* extracted for
Fact(kind, cfg, what) == [kind |-> kind, cfg |-> cfg, what |-> what]

RECURSIVE PutAll(_, _, _, _, _)
PutAll(store, ns, kind, cfg, names) ==
  IF names = {} THEN store
  ELSE LET n == CHOOSE x \in names : TRUE
       IN PutAll(aput(store, ns, << kind, n >>, Fact(kind, cfg, n)),
                 ns, kind, cfg, names \ {n})

\* process_email_for_memory of memory-module.py: the summary, the contacts,
\* the preferences, then the background memories
memory_module_process_email(store, cfg, x) ==
  LET memories_namespace == get_memory_namespace(cfg, "memories")
      s1 == aput(store, memories_namespace, uuid4(store),
                 Fact("summary", cfg, uuid4(store)))
      s2 == IF x.contacts # {}
              THEN PutAll(s1, get_memory_namespace(cfg, "contacts"), "contact", cfg,
                          x.contacts)
              ELSE s1
      s3 == IF x.preferences # {}
              THEN PutAll(s2, get_memory_namespace(cfg, "preferences"), "preference",
                          cfg, x.preferences)
              ELSE s2
  IN IF x.memories = 0 THEN s3
     ELSE aput(s3, memories_namespace, uuid4(s3), Fact("memory", cfg, uuid4(s3)))

RECURSIVE Format(_, _)
Format(label, items) ==
  IF items = {} THEN << >>
  ELSE LET i == CHOOSE x \in items : TRUE
       IN << [label |-> label, content |-> i.value] >> \o Format(label, items \ {i})

\* retrieve_relevant_memories, given the answers of the three searches
retrieve_relevant_memories(memories, contacts, preferences) ==
  Format("Memory", memories) \o Format("Contact", contacts)
    \o Format("Preference", preferences)

\* limits: the smallest one, and the one process_memory_node passes
Limits == {1, 3}

Retrieval(n, cfg, limit, results) ==
  [n |-> n, cfg |-> cfg, limit |-> limit, results |-> results]
NoRetrieval == Retrieval(0, MemoryConfig(Missing, Missing), 0, << >>)

\* ------------------------------------------------------------------ graph
\* variant: bad_tool_name ends the run
Edge_bad_tool_ends(node) ==
  CASE node = "send_message" -> "human_node"
    [] node = "send_cal_invite" -> "human_node"
    [] node = "find_meeting_time" -> "draft_response"
    [] node = "bad_tool_name" -> END
    [] node = "send_cal_invite_node" -> "draft_response"
    [] node = "send_email_node" -> "mark_as_read_node"
    [] node = "rewrite" -> "send_email_draft"
    [] node = "send_email_draft" -> "human_node"
    [] node = "mark_as_read_node" -> END
    [] node = "notify" -> "human_node"
    [] node = "process_memory_node" -> "draft_response"

\* variant: find_meeting_time is followed by itself
Edge_meeting_loops(node) ==
  CASE node = "send_message" -> "human_node"
    [] node = "send_cal_invite" -> "human_node"
    [] node = "find_meeting_time" -> "find_meeting_time"
    [] node = "bad_tool_name" -> "draft_response"
    [] node = "send_cal_invite_node" -> "draft_response"
    [] node = "send_email_node" -> "mark_as_read_node"
    [] node = "rewrite" -> "send_email_draft"
    [] node = "send_email_draft" -> "human_node"
    [] node = "mark_as_read_node" -> END
    [] node = "notify" -> "human_node"
    [] node = "process_memory_node" -> "draft_response"

\* add_edge(source, target) of build_memory_enhanced_graph
Edge(node) ==
  CASE node = "send_message" -> "human_node"
    [] node = "send_cal_invite" -> "human_node"
    [] node = "find_meeting_time" -> "draft_response"
    [] node = "bad_tool_name" -> "draft_response"
    [] node = "send_cal_invite_node" -> "draft_response"
    [] node = "send_email_node" -> "mark_as_read_node"
    [] node = "rewrite" -> "send_email_draft"
    [] node = "send_email_draft" -> "human_node"
    [] node = "mark_as_read_node" -> END
    [] node = "notify" -> "human_node"
    [] node = "process_memory_node" -> "draft_response"

GmailNodes == {"send_email_node", "send_cal_invite_node", "mark_as_read_node"}

VARIABLES
  pc,            \* the node to run next, END, or "ERROR" (the run raised)
  prev,          \* the node that ran last
  path,          \* the nodes run since the last human response
  waiting,       \* the node at pc is suspended in interrupt()
  request,       \* the request of the pending interrupt
  lastResp,      \* the last human response and the node that got it
  triage,        \* state["triage"].response
  messages,      \* state["messages"]
  draft,         \* state["draft"]
  nextId,        \* source of fresh uuids / message ids
  memory,        \* get_config(config)["memory"]
  examples,      \* store namespace (assistant_id, "triage_examples")
  email_memory,  \* store namespace (assistant_id, "email_memory")
  puts,          \* store.aput calls of the human-review nodes so far
  runs,          \* number of multi_reflection_graph runs created so far
  sent,          \* contents handed to send_email, in order
  invites,       \* number of calendar invites sent
  marked,        \* mark_as_read succeeded for the email
  llmCalls,      \* model invocations of the last draft_response
  drafts,        \* executions of draft_response so far
  humans,        \* human responses so far
  config,        \* the runtime config the run was started with
  firstValid,    \* position of the model's first valid response, last draft_response
  markCalls,     \* calls of mark_as_read so far
  prompts,       \* store namespace (assistant_id,)
  usedPrompts,   \* the prompt texts the last draft_response used
  sysmem,        \* store namespace (assistant_key, "memories", "system_prompts")
  pendingTypes,  \* memory types the reflection run has still to update
  lastReflect,   \* the last execution of update_general
  memstore,      \* store namespaces (assistant_id, category, user_id)
  retrieved      \* the last call of retrieve_relevant_memories

vars ==
  << pc, prev, path, waiting, request, lastResp, triage, messages, draft, nextId,
     memory, examples, email_memory, puts, runs, sent, invites, marked,
     llmCalls, drafts, humans, config, firstValid, markCalls, prompts,
     usedPrompts, sysmem, pendingTypes, lastReflect, memstore, retrieved >>

storeVars == << examples, email_memory, puts, runs >>
gmailVars == << sent, invites, marked, markCalls >>
promptVars == << prompts, usedPrompts >>
reflectVars == << sysmem, pendingTypes, lastReflect >>
memVars == << memstore, retrieved >>
humanVars == << waiting, request, lastResp, humans >>

NoDraft == AIMessage(0, "", << >>)

\* the state of a thread nothing has run in yet, but for the position, the
\* triage result and the messages
InitThread ==
  /\ path = << >>
  /\ waiting = FALSE
  /\ request = NoRequest
  /\ lastResp = NoResp
  /\ draft = NoDraft
  /\ nextId = 2
  /\ config \in RuntimeConfigs
  /\ memory = get_config(config)
  /\ examples = {}
  /\ email_memory = {}
  /\ puts = 0
  /\ runs = 0
  /\ sent = << >>
  /\ invites = 0
  /\ marked = FALSE
  /\ llmCalls = 0
  /\ drafts = 0
  /\ humans = 0
  /\ firstValid = 0
  /\ markCalls = 0
  /\ usedPrompts = [k \in DraftKeys |-> ""]
  /\ lastReflect = NoReflect
  /\ retrieved = NoRetrieval

\* a run starts at triage_input
InitRun ==
  /\ pc = "triage_input"
  /\ prev = "START"
  /\ triage = "none"
  /\ messages \in {<< >>, << HumanMessage(1, "earlier") >>}
  /\ InitThread

\* a new store, no reflection run
Init ==
  /\ InitRun
  /\ prompts = [k \in PromptKeys |-> NoItem]
  /\ sysmem = {}
  /\ pendingTypes = {}
  /\ memstore = {}

Ran(node, next) ==
  /\ pc' = next
  /\ prev' = node
  /\ path' = Append(path, node)

\* triage_input: the model classifies the email; every message of the state
\* is removed; then route_after_triage
TriageInput ==
  /\ pc = "triage_input"
  /\ \E response \in TriageValues :
       /\ triage' = response
       /\ messages' = triage_input(messages)
       /\ Ran("triage_input", route_after_triage(response))
  /\ UNCHANGED << draft, nextId, memory, config, llmCalls, firstValid, drafts >>
  /\ UNCHANGED << storeVars, gmailVars, humanVars >>
  /\ UNCHANGED << promptVars, reflectVars, memVars >>

\* variant: Ignore is offered whatever the message list holds
Offered_with_ignore(msgs) ==
  BaseTools \cup MemoryTools \cup {"Ignore"}

\* the tools draft_response binds to the model
Offered(msgs) ==
  BaseTools \cup MemoryTools \cup (IF Len(msgs) > 0 THEN {"Ignore"} ELSE {})

\* a response of the model: ncalls tool calls of the given name
Response(id, name, content, ncalls) ==
  AIMessage(id, "",
    [i \in 1..ncalls |->
       ToolCall(id + i, name,
                IF name = "Ignore" THEN IgnoreArgs
                ELSE IF name \in {"ResponseEmailDraft", "NewEmailDraft"}
                  THEN DraftArgs(content, "list")
                ELSE [content |-> content, ignore |-> FALSE])])

\* draft_response: the model is asked up to MaxTries times, until a response
\* has exactly one tool call; the last response is returned as "draft" and
\* as the one new message; then take_action
\* variant: the loop test admits one more round
draft_loop_one_more(i, n, first) ==
  LET RECURSIVE loop(_, _)
      loop(j, m) ==
        IF j <= MaxTries
          THEN IF m + 1 # first THEN loop(j + 1, m + 1)
               ELSE [calls |-> m + 1, valid |-> TRUE]
          ELSE [calls |-> m, valid |-> FALSE]
  IN loop(i, n)

\* draft_response, the retry loop: i counts the invalid responses, n the
\* invocations; first is the position of the model's first response with
\* exactly one tool call.  The result is the number of invocations and
\* whether the response returned is that valid one.
draft_loop(i, n, first) ==
  LET RECURSIVE loop(_, _)
      loop(j, m) ==
        IF j < MaxTries
          THEN IF m + 1 # first THEN loop(j + 1, m + 1)
               ELSE [calls |-> m + 1, valid |-> TRUE]
          ELSE [calls |-> m, valid |-> FALSE]
  IN loop(i, n)

DraftResponse ==
  /\ pc = "draft_response"
  /\ drafts < MaxDrafts
  /\ \E first \in 1..(MaxTries + 1), invalid \in {0, 2},
        name \in Offered(messages) \cup {UnknownTool}, content \in DraftContents :
       LET loop == draft_loop(0, 0, first)
           response ==
             Response(nextId, name,
                      IF name = "ResponseEmailDraft" THEN content ELSE "",
                      IF loop.valid THEN 1 ELSE invalid)
       IN /\ draft' = response
          /\ messages' = add_messages(messages, << response >>)
          /\ Ran("draft_response", take_action(add_messages(messages, << response >>)))
          /\ llmCalls' = loop.calls
          /\ firstValid' = first
  /\ prompts' = draft_store(prompts)
  /\ usedPrompts' = draft_used(prompts)
  /\ nextId' = nextId + 3
  /\ drafts' = drafts + 1
  /\ UNCHANGED << triage, memory, config >>
  /\ UNCHANGED << storeVars, gmailVars, humanVars >>
  /\ UNCHANGED << reflectVars, memVars >>

BadToolName ==
  /\ pc = "bad_tool_name"
  /\ messages' = add_messages(messages, bad_tool_name(messages, nextId))
  /\ nextId' = nextId + 2
  /\ Ran("bad_tool_name", Edge("bad_tool_name"))
  /\ UNCHANGED << triage, draft, memory, config, llmCalls, firstValid, drafts >>
  /\ UNCHANGED << storeVars, gmailVars, humanVars >>
  /\ UNCHANGED << promptVars, reflectVars, memVars >>

ProcessMemoryNode ==
  /\ pc = "process_memory_node"
  /\ messages' = add_messages(messages, process_memory_node(messages, nextId))
  /\ nextId' = nextId + 2
  /\ Ran("process_memory_node", Edge("process_memory_node"))
  /\ UNCHANGED << triage, draft, memory, config, llmCalls, firstValid, drafts >>
  /\ UNCHANGED << storeVars, gmailVars, humanVars >>
  /\ UNCHANGED << promptVars, reflectVars, memVars >>

FindMeetingTime ==
  /\ pc = "find_meeting_time"
  /\ messages' = add_messages(messages, find_meeting_time(messages, nextId))
  /\ nextId' = nextId + 2
  /\ Ran("find_meeting_time", Edge("find_meeting_time"))
  /\ UNCHANGED << triage, draft, memory, config, llmCalls, firstValid, drafts >>
  /\ UNCHANGED << storeVars, gmailVars, humanVars >>
  /\ UNCHANGED << promptVars, reflectVars, memVars >>

Rewrite ==
  /\ pc = "rewrite"
  /\ \E content \in RewriteContents :
       messages' = add_messages(messages, rewrite(messages, content))
  /\ Ran("rewrite", Edge("rewrite"))
  /\ UNCHANGED << triage, draft, nextId, memory, config, llmCalls, firstValid, drafts >>
  /\ UNCHANGED << storeVars, gmailVars, humanVars >>
  /\ UNCHANGED << promptVars, reflectVars, memVars >>

\* the three nodes that call the mail/calendar API: send_email_node,
\* send_cal_invite_node and mark_as_read_node; ok: the API call succeeds
GmailNodeUpdate(node, msgs, id, ok) ==
  IF node = "send_cal_invite_node" THEN send_cal_invite_node(msgs, id, ok)
  ELSE IF node = "mark_as_read_node" THEN mark_as_read_node(msgs, id, ok)
  ELSE << >>

GmailNode ==
  /\ pc \in GmailNodes
  /\ \E ok \in BOOLEAN :
       /\ messages' = add_messages(messages, GmailNodeUpdate(pc, messages, nextId, ok))
       /\ sent' = IF pc = "send_email_node"
                    THEN sent \o send_email_node(messages, ok) ELSE sent
       /\ invites' = IF pc = "send_cal_invite_node" /\ HasCall(messages) /\ ok
                       THEN invites + 1 ELSE invites
       /\ marked' = IF pc = "mark_as_read_node" /\ ok THEN TRUE ELSE marked
       /\ markCalls' = IF pc = "mark_as_read_node" THEN markCalls + 1 ELSE markCalls
  /\ nextId' = nextId + 2
  /\ Ran(pc, Edge(pc))
  /\ UNCHANGED << triage, draft, memory, config, llmCalls, firstValid, drafts >>
  /\ UNCHANGED << storeVars, humanVars >>
  /\ UNCHANGED << promptVars, reflectVars, memVars >>

\* the effects of an Outcome on the state, the store and the run client
Apply(o, uuid) ==
  /\ messages' = add_messages(messages, o.msgs)
  /\ examples' = IF o.save = "none" THEN examples ELSE save_email(examples, o.save, uuid)
  /\ email_memory' = IF o.process THEN process_email_for_memory(email_memory)
                                   ELSE email_memory
  /\ puts' = puts
             + (IF o.save # "none" /\ save_email(examples, o.save, uuid) # examples
                  THEN 1 ELSE 0)
             + (IF o.process THEN 1 ELSE 0)
  /\ runs' = runs + (IF o.run THEN 1 ELSE 0)

\* a human-review node runs up to interrupt() and suspends
Interrupt ==
  /\ pc \in HumanReviewNodes
  /\ ~waiting
  /\ waiting' = TRUE
  /\ request' = Request(pc, messages)
  /\ Apply(BeforeInterrupt(pc, messages, memory), nextId)
  /\ UNCHANGED << pc, prev, path, lastResp, humans >>
  /\ UNCHANGED << triage, draft, nextId, memory, config, llmCalls, firstValid, drafts >>
  /\ UNCHANGED gmailVars
  /\ UNCHANGED << promptVars, reflectVars, memVars >>

\* interrupt() returns a human response of one of the given types; the node
\* finishes
Answer(types) ==
  /\ pc \in HumanReviewNodes
  /\ waiting
  /\ humans < MaxHuman
  /\ \E type \in types, text \in HumanTexts, content \in EditedContents :
       LET resp == [node |-> pc, type |-> type,
                    args |-> IF type = "edit"
                               THEN IF pc = "send_email_draft"
                                      THEN DraftArgs(content, "list")
                                      ELSE [content |-> content, ignore |-> FALSE]
                               ELSE NoArgs,
                    text |-> IF type = "response" THEN text ELSE ""]
           o == HumanReview(pc, messages, resp, memory, nextId)
       IN /\ lastResp' = resp
          /\ IF o.raised
               THEN /\ pc' = "ERROR"
                    /\ UNCHANGED << messages, storeVars >>
               ELSE /\ pc' = Edge(pc)
                    /\ Apply(o, nextId + 1)
  /\ prev' = pc
  /\ path' = << >>
  /\ waiting' = FALSE
  /\ request' = NoRequest
  /\ humans' = humans + 1
  /\ nextId' = nextId + 2
  /\ UNCHANGED << triage, draft, memory, config, llmCalls, firstValid, drafts >>
  /\ UNCHANGED gmailVars
  /\ UNCHANGED << promptVars, reflectVars, memVars >>

\* the human answers the pending request with one of the types it allows
Resume == Answer(request.allowed)

\* the client resumes the run with a response of any type
ResumeAnyType == Answer(AnyResponseTypes)

\* human_node does nothing; then enter_after_human
HumanNode ==
  /\ pc = "human_node"
  /\ Ran("human_node", enter_after_human(messages, triage))
  /\ UNCHANGED << triage, messages, draft, nextId, memory, config, llmCalls, firstValid, drafts >>
  /\ UNCHANGED << storeVars, gmailVars, humanVars >>
  /\ UNCHANGED << promptVars, reflectVars, memVars >>

\* one "reflection" branch of multi_reflection_graph: update_general for a
\* memory type determine_what_to_update chose
UpdateGeneral ==
  /\ pendingTypes # {}
  /\ \E type \in pendingTypes, update_prompt \in BOOLEAN, new_prompt \in NewPrompts :
       LET key == MEMORY_TO_UPDATE_KEYS(type)
           output == GeneralResponse(update_prompt, new_prompt)
           r == update_general(prompts, sysmem, key, output)
       IN /\ prompts' = r.prompts
          /\ sysmem' = r.sysmem
          /\ pendingTypes' = pendingTypes \ {type}
          /\ lastReflect' = [n |-> lastReflect.n + 1, key |-> key, output |-> output,
                             raised |-> r.raised, aputs |-> r.aputs]
  /\ UNCHANGED << pc, prev, path, triage, messages, draft, nextId, memory, config >>
  /\ UNCHANGED << llmCalls, firstValid, drafts, usedPrompts >>
  /\ UNCHANGED << storeVars, gmailVars, humanVars, memVars >>

\* process_email_for_memory for one reviewed email of some assistant and user
ProcessEmailForMemory ==
  /\ Cardinality({i \in memstore : i.value.kind = "summary"}) < MaxEmails
  /\ \E cfg \in MemoryConfigs, x \in Extractions :
       memstore' = memory_module_process_email(memstore, cfg, x)
  /\ UNCHANGED << pc, prev, path, triage, messages, draft, nextId, memory, config >>
  /\ UNCHANGED << llmCalls, firstValid, drafts, retrieved >>
  /\ UNCHANGED << storeVars, gmailVars, humanVars, promptVars, reflectVars >>

\* retrieve_relevant_memories for some assistant, user and limit
RetrieveRelevantMemories ==
  /\ \E cfg \in MemoryConfigs, limit \in Limits :
       \E memories \in asearch(memstore, get_memory_namespace(cfg, "memories"), limit),
          contacts \in asearch(memstore, get_memory_namespace(cfg, "contacts"), limit),
          preferences \in asearch(memstore, get_memory_namespace(cfg, "preferences"), limit) :
         retrieved' = Retrieval(1, cfg, limit,
                        retrieve_relevant_memories(memories, contacts, preferences))
  /\ UNCHANGED << pc, prev, path, triage, messages, draft, nextId, memory, config >>
  /\ UNCHANGED << llmCalls, firstValid, drafts, memstore >>
  /\ UNCHANGED << storeVars, gmailVars, humanVars, promptVars, reflectVars >>

Next ==
  \/ TriageInput
  \/ DraftResponse
  \/ BadToolName
  \/ ProcessMemoryNode
  \/ FindMeetingTime
  \/ Rewrite
  \/ GmailNode
  \/ Interrupt
  \/ Resume
  \/ HumanNode

Spec == Init /\ [][Next]_vars

\* ---------------------------------------------------------------- sending
\* The path send_email_node -> mark_as_read_node -> END, entered with any
\* last message: a draft with well-formed or malformed args, or a message
\* without a tool call.
SendArgs(content) ==
  {DraftArgs(content, r) : r \in Recipients}
    \cup {[content |-> content, ignore |-> FALSE]}

SendMessages ==
  UNION {{<< HumanMessage(1, "hi"),
             AIMessage(2, content, << ToolCall(3, "ResponseEmailDraft", args) >>) >> :
            args \in SendArgs(content)} : content \in RewriteContents}
    \cup {<< HumanMessage(1, "hi"), AIMessage(2, "draft", << >>) >>}

InitSend ==
  /\ pc = "send_email_node"
  /\ prev = "human_node"
  /\ triage = "email"
  /\ messages \in SendMessages
  /\ InitThread
  /\ prompts = [k \in PromptKeys |-> NoItem]
  /\ sysmem = {}
  /\ pendingTypes = {}
  /\ memstore = {}

NextSend == GmailNode

SpecSend == InitSend /\ [][NextSend]_vars

\* ------------------------------------------------- any kind of response
\* The graph with a client that may resume an interrupt with a response of
\* any type, allowed by the request or not.
NextAnyType ==
  \/ TriageInput
  \/ DraftResponse
  \/ BadToolName
  \/ ProcessMemoryNode
  \/ FindMeetingTime
  \/ Rewrite
  \/ GmailNode
  \/ Interrupt
  \/ ResumeAnyType
  \/ HumanNode

SpecAnyType == Init /\ [][NextAnyType]_vars

\* ------------------------------------------------ drafting and reflection
\* The store outlives a run: a run may start with prompts stored by earlier
\* runs and with a reflection run, created by an earlier review, under way.
StoredPrompts ==
  {[k \in PromptKeys |-> v] : v \in {NoItem, NoDataItem, Data("stored")}}
    \cup {[k \in PromptKeys |->
             IF k = "schedule_preferences" THEN NoItem ELSE Data("stored")]}

InitPrompts ==
  /\ InitRun
  /\ config = RuntimeConfig(TRUE, FALSE, FALSE)
  /\ messages = << >>
  /\ prompts \in StoredPrompts
  /\ sysmem = {}
  /\ pendingTypes \in PromptTypeLists
  /\ memstore = {}

NextPrompts ==
  \/ TriageInput
  \/ DraftResponse
  \/ UpdateGeneral

SpecPrompts == InitPrompts /\ [][NextPrompts]_vars

\* ------------------------------------------------------------ long runs
\* The graph up to the first human interrupt, run for as long as the model
\* keeps it going.  What a node does next depends on the last message only
\* (and on whether there is one), so the state keeps just that message, with
\* its ids renumbered, and no history; the counters stand still.
Renumbered(m) ==
  [m EXCEPT !.id = 1,
            !.calls = [i \in DOMAIN m.calls |-> [m.calls[i] EXCEPT !.id = 1 + i]],
            !.tcid = IF m.tcid > 0 THEN 2 ELSE m.tcid]

LastOnly(msgs) == IF msgs = << >> THEN << >> ELSE << Renumbered(Last(msgs)) >>

LiveRan(node, update, next) ==
  /\ messages' = LastOnly(add_messages(messages, update))
  /\ pc' = next
  /\ prev' = node
  /\ UNCHANGED << path, nextId, memory, config, drafts >>
  /\ UNCHANGED << storeVars, humanVars, reflectVars, memVars >>

LiveTriageInput ==
  /\ pc = "triage_input"
  /\ \E response \in TriageValues :
       /\ triage' = response
       /\ messages' = LastOnly(triage_input(messages))
       /\ pc' = route_after_triage(response)
  /\ prev' = "triage_input"
  /\ UNCHANGED << path, nextId, memory, config, drafts >>
  /\ UNCHANGED << draft, llmCalls, firstValid >>
  /\ UNCHANGED << storeVars, gmailVars, humanVars, promptVars, reflectVars, memVars >>

LiveDraftResponse ==
  /\ pc = "draft_response"
  /\ \E first \in 1..(MaxTries + 1), invalid \in {0, 2},
        name \in Offered(messages) \cup {UnknownTool}, content \in DraftContents :
       LET loop == draft_loop(0, 0, first)
           response ==
             Response(nextId, name,
                      IF name = "ResponseEmailDraft" THEN content ELSE "",
                      IF loop.valid THEN 1 ELSE invalid)
       IN /\ draft' = response
          /\ LiveRan("draft_response", << response >>,
                     take_action(add_messages(messages, << response >>)))
          /\ llmCalls' = loop.calls
          /\ firstValid' = first
  /\ prompts' = draft_store(prompts)
  /\ usedPrompts' = draft_used(prompts)
  /\ UNCHANGED << triage, gmailVars >>

LiveBadToolName ==
  /\ pc = "bad_tool_name"
  /\ LiveRan("bad_tool_name", bad_tool_name(messages, nextId), Edge("bad_tool_name"))
  /\ UNCHANGED << triage, draft, llmCalls, firstValid, gmailVars, promptVars >>

LiveProcessMemoryNode ==
  /\ pc = "process_memory_node"
  /\ LiveRan("process_memory_node", process_memory_node(messages, nextId),
             Edge("process_memory_node"))
  /\ UNCHANGED << triage, draft, llmCalls, firstValid, gmailVars, promptVars >>

LiveFindMeetingTime ==
  /\ pc = "find_meeting_time"
  /\ LiveRan("find_meeting_time", find_meeting_time(messages, nextId),
             Edge("find_meeting_time"))
  /\ UNCHANGED << triage, draft, llmCalls, firstValid, gmailVars, promptVars >>

LiveRewrite ==
  /\ pc = "rewrite"
  /\ \E content \in RewriteContents :
       LiveRan("rewrite", rewrite(messages, content), Edge("rewrite"))
  /\ UNCHANGED << triage, draft, llmCalls, firstValid, gmailVars, promptVars >>

LiveMarkAsRead ==
  /\ pc = "mark_as_read_node"
  /\ \E ok \in BOOLEAN :
       /\ LiveRan("mark_as_read_node", mark_as_read_node(messages, nextId, ok),
                  Edge("mark_as_read_node"))
       /\ marked' = ok
  /\ markCalls' = 1
  /\ UNCHANGED << triage, draft, llmCalls, firstValid, sent, invites, promptVars >>

\* a human-review node runs up to interrupt() and suspends
LiveInterrupt ==
  /\ pc \in HumanReviewNodes
  /\ ~waiting
  /\ waiting' = TRUE
  /\ request' = Request(pc, messages)
  /\ UNCHANGED << pc, prev, path, lastResp, humans, messages, storeVars >>
  /\ UNCHANGED << triage, draft, nextId, memory, config, llmCalls, firstValid, drafts >>
  /\ UNCHANGED << gmailVars, promptVars, reflectVars, memVars >>

NextLive ==
  \/ LiveTriageInput
  \/ LiveDraftResponse
  \/ LiveBadToolName
  \/ LiveProcessMemoryNode
  \/ LiveFindMeetingTime
  \/ LiveRewrite
  \/ LiveMarkAsRead
  \/ LiveInterrupt

\* a node that is scheduled runs
LiveSpec ==
  /\ Init
  /\ [][NextLive]_vars
  /\ WF_vars(LiveTriageInput)
  /\ WF_vars(LiveDraftResponse)
  /\ WF_vars(LiveBadToolName)
  /\ WF_vars(LiveProcessMemoryNode)
  /\ WF_vars(LiveFindMeetingTime)
  /\ WF_vars(LiveRewrite)
  /\ WF_vars(LiveMarkAsRead)
  /\ WF_vars(LiveInterrupt)

\* ---------------------------------------------------------------- routing
\* The three routing functions on any state: pc names the function that is
\* about to be evaluated, and becomes the node it returns.
Routers == {"route_after_triage", "take_action", "enter_after_human"}

\* state["triage"].response: a known value, an unknown one, or no triage
TriageInputs == TriageValues \cup {"spam", Missing}

\* last messages: a model response with no, one or two calls of any tool
\* name, a tool message, a human message
RoutingMessages ==
  {<< >>, << ToolMessage(1, "ok", 2) >>, << HumanMessage(1, "hi") >>}
    \cup {<< HumanMessage(1, "hi"), Response(2, name, "", ncalls) >> :
             name \in BaseTools \cup MemoryTools \cup {"Ignore", UnknownTool},
             ncalls \in 0..2}

InitRouting ==
  /\ pc \in Routers
  /\ prev = "START"
  /\ triage \in TriageInputs
  /\ messages \in RoutingMessages
  /\ InitThread
  /\ config = RuntimeConfig(TRUE, FALSE, FALSE)
  /\ prompts = [k \in PromptKeys |-> NoItem]
  /\ sysmem = {}
  /\ pendingTypes = {}
  /\ memstore = {}

Routed(router, next) ==
  /\ pc = router
  /\ pc' = next
  /\ prev' = router
  /\ UNCHANGED << path, triage, messages, draft, nextId, memory, config >>
  /\ UNCHANGED << llmCalls, firstValid, drafts >>
  /\ UNCHANGED << storeVars, gmailVars, humanVars, promptVars, reflectVars, memVars >>

RouteAfterTriage == Routed("route_after_triage", route_after_triage(triage))
TakeAction == Routed("take_action", take_action(messages))
EnterAfterHuman == Routed("enter_after_human", enter_after_human(messages, triage))

NextRouting ==
  \/ RouteAfterTriage
  \/ TakeAction
  \/ EnterAfterHuman

SpecRouting == InitRouting /\ [][NextRouting]_vars

\* ------------------------------------------------------------ memory store
NextMemory ==
  \/ ProcessEmailForMemory
  \/ RetrieveRelevantMemories

InitMemory ==
  /\ Init
  /\ config = RuntimeConfig(TRUE, FALSE, FALSE)
  /\ messages = << >>

SpecMemory == InitMemory /\ [][NextMemory]_vars

\* ================================================================= claims
\* Neither sending node is ever the node to run, and nothing is ever sent:
\* human_node is the only way into send_email_node and send_cal_invite_node,
\* and enter_after_human never chooses them.  (This is why the statements of
\* C1 and C2 about when those nodes run hold of no state in particular.)
SendNodesNeverRun ==
  /\ pc \notin {"send_email_node", "send_cal_invite_node"}
  /\ sent = << >>
  /\ invites = 0

IsPrefixOf(p, full) ==
  /\ Len(p) <= Len(full)
  /\ \A i \in 1..Len(p) : p[i] = full[i]

\* the run follows the given nodes, in order, and then stops at END
Follows(nodes) ==
  /\ IsPrefixOf(path, nodes)
  /\ pc = (IF Len(path) < Len(nodes) THEN nodes[Len(path) + 1] ELSE END)

\* C3: after "accept" at the send_email_draft interrupt the nodes run next
\* are human_node, send_email_node, mark_as_read_node, and then the run ends.
C3_AcceptSendsAndEnds ==
  (lastResp.node = "send_email_draft" /\ lastResp.type = "accept") =>
    /\ path = << >> =>
         /\ Last(messages).kind = "ai"
         /\ Len(Last(messages).calls) = 1
         /\ Last(messages).calls[1].name = "ResponseEmailDraft"
    /\ Follows(<< "human_node", "send_email_node", "mark_as_read_node" >>)

\* C4: after "ignore" at any interrupt the node has returned an assistant
\* message whose single tool call is Ignore, and the run goes human_node,
\* mark_as_read_node, END.
C4_IgnoreMarksReadAndEnds ==
  lastResp.type = "ignore" =>
    /\ path = << >> =>
         /\ Last(messages).kind = "ai"
         /\ Len(Last(messages).calls) = 1
         /\ Last(messages).calls[1].name = "Ignore"
    /\ Follows(<< "human_node", "mark_as_read_node" >>)

\* C5 (as stated): triage yields one of three outcomes, mapped one-to-one:
\* "no" -> mark_as_read_node, "email" -> draft_response, "notify" -> notify.
C5_ThreeOutcomesOneToOne ==
  prev = "triage_input" =>
    /\ triage \in {"no", "email", "notify"}
    /\ pc = (CASE triage = "no" -> "mark_as_read_node"
               [] triage = "email" -> "draft_response"
               [] triage = "notify" -> "notify")

\* C5 (amended): triage yields one of four outcomes; "no" goes to
\* mark_as_read_node, "email" to draft_response, "notify" to notify and
\* "question" to draft_response as well, and to no other node.
C5_FourOutcomesRouted ==
  prev = "triage_input" =>
    /\ triage \in {"no", "email", "notify", "question"}
    /\ triage = "no" => pc = "mark_as_read_node"
    /\ triage = "email" => pc = "draft_response"
    /\ triage = "notify" => pc = "notify"
    /\ triage = "question" => pc = "draft_response"

C5_Witness == prev = "triage_input" /\ triage = "question" /\ pc = "draft_response"

\* C6: while a human-review node has not received its human response it
\* changes neither the messages nor the store and creates no reflection run;
\* such effects come only with the step that consumes the response.
C6_NoEffectBeforeResponse ==
  [][(pc \in HumanReviewNodes /\ humans' = humans) =>
       UNCHANGED << messages, examples, email_memory, puts, runs >>]_vars

\* a node is suspended a second time; the first response was saved,
\* processed and reflected on, nothing since
C6_Witness ==
  /\ waiting
  /\ memory
  /\ humans = 1
  /\ puts = 2
  /\ runs = 1

RouteTable ==
  [Question |-> "send_message",
   ResponseEmailDraft |-> "rewrite",
   Ignore |-> "mark_as_read_node",
   MeetingAssistant |-> "find_meeting_time",
   SendCalendarInvite |-> "send_cal_invite",
   ManageMemory |-> "process_memory_node",
   SearchMemory |-> "process_memory_node"]

\* C7: after draft_response the next node is given by the name of the single
\* tool call of the last message: Question -> send_message,
\* ResponseEmailDraft -> rewrite, Ignore -> mark_as_read_node,
\* MeetingAssistant -> find_meeting_time, SendCalendarInvite ->
\* send_cal_invite, ManageMemory/SearchMemory -> process_memory_node; any
\* other name, or a number of tool calls other than one, -> bad_tool_name.
C7_TakeActionTable ==
  prev = "draft_response" =>
    LET calls == Last(messages).calls IN
      IF Len(calls) = 1 /\ calls[1].name \in DOMAIN RouteTable
        THEN pc = RouteTable[calls[1].name]
        ELSE pc = "bad_tool_name"

\* the model answered with two tool calls of a routable name
C7_Witness ==
  /\ prev = "draft_response"
  /\ Len(Last(messages).calls) = 2
  /\ Last(messages).calls[1].name = "ResponseEmailDraft"
  /\ pc = "bad_tool_name"

\* C8: after "edit" at send_email_draft the returned message keeps the id,
\* the tool call id and the tool name of the draft and carries the human's
\* args; the run goes on to send_email_node, and what is handed to
\* send_email is the content of the edited args.
C8_EditedDraftIsSent ==
  (lastResp.node = "send_email_draft" /\ lastResp.type = "edit") =>
    /\ path = << >> =>
         /\ Last(messages).id = draft.id
         /\ Len(Last(messages).calls) = 1
         /\ Last(messages).calls[1].id = draft.calls[1].id
         /\ Last(messages).calls[1].name = draft.calls[1].name
         /\ Last(messages).calls[1].args = lastResp.args
    /\ Len(path) >= 1 => path[1] = "human_node"
    /\ Len(path) = 1 => pc = "send_email_node"
    /\ Len(path) >= 2 => path[2] = "send_email_node"
    /\ \A i \in 1..Len(sent) : sent[i] = lastResp.args.content

Contains(content, text) ==
  content = text \/ content = InterruptedPrefix \o text

\* C9: after a free-text answer ("response") the node has appended a tool or
\* user message containing the answer, the node run after human_node is
\* draft_response, and nothing is sent in between.
C9_ResponseGoesBackToDraft ==
  lastResp.type = "response" =>
    /\ path = << >> =>
         /\ pc = "human_node"
         /\ Last(messages).kind \in {"tool", "human"}
         /\ Contains(Last(messages).content, lastResp.text)
    /\ Len(path) >= 1 => path[1] = "human_node"
    /\ Len(path) = 1 => pc = "draft_response"
    /\ Len(path) >= 2 => path[2] = "draft_response"
    /\ Len(path) <= 2 => sent = << >> /\ invites = 0

C9_Witness ==
  /\ lastResp.type = "response"
  /\ lastResp.node = "send_cal_invite"
  /\ Len(path) >= 2
  /\ path[2] = "draft_response"

\* C10: a step creates a multi_reflection_graph run exactly when it consumes
\* a human response of type "response" or "edit" with the memory flag on, and
\* then exactly one.
C10_ReflectionOnFeedbackOnly ==
  [][runs' - runs =
       (IF /\ humans' = humans + 1
           /\ memory
           /\ lastResp'.type \in {"response", "edit"}
          THEN 1 ELSE 0)]_vars

C10_Witness ==
  /\ memory
  /\ humans = 1
  /\ lastResp.type = "edit"
  /\ lastResp.node = "send_email_draft"
  /\ runs = 1


\* C11: under SpecPrompts, an execution of draft_response leaves every key
\* of namespace (assistant_id,) that holds a value with a "data" field as it
\* is and puts that stored text into the prompt; a key without such a value
\* gets the configured default, which is then the text used; the key
\* rewrite_instructions is not touched.  Hence every prompt that
\* update_general has written (each has a record under system_prompts) is
\* still the stored prompt, whatever draft_response ran since.
C11_StoredPromptsPersist ==
  /\ [](\A r \in sysmem : prompts[r.key[2]] = Data(r.prompt))
  /\ [][drafts' # drafts =>
          /\ \A k \in DraftKeys :
               IF HasData(prompts[k])
                 THEN prompts'[k] = prompts[k] /\ usedPrompts'[k] = prompts[k].data
                 ELSE prompts'[k] = Data(Default(k)) /\ usedPrompts'[k] = Default(k)
          /\ \A k \in PromptKeys \ DraftKeys : prompts'[k] = prompts[k]]_vars

\* a prompt written by reflection was read, and kept, by a later draft_response
C11_Witness ==
  /\ prev = "draft_response"
  /\ PromptRecord("random_preferences", "reflected") \in sysmem
  /\ usedPrompts["random_preferences"] = "reflected"
  /\ prompts["random_preferences"] = Data("reflected")
  /\ prompts["schedule_preferences"] = Data(Default("schedule_preferences"))

\* C12: under SpecPrompts, an execution of update_general for prompt_key
\* writes no other key of namespace (assistant_key,); when the model's
\* output has update_prompt it makes two writes, new_prompt under prompt_key
\* and one record under (assistant_key, "memories", "system_prompts");
\* otherwise (update_prompt false, or the prompt could not be read) it
\* writes nothing; the other namespaces are never touched.
C12_UpdateGeneralFrame ==
  [][lastReflect'.n # lastReflect.n =>
       LET key == lastReflect'.key
           out == lastReflect'.output
       IN /\ \A k \in PromptKeys \ {key} : prompts'[k] = prompts[k]
          /\ IF out.update_prompt /\ ~lastReflect'.raised
               THEN /\ prompts'[key] = Data(out.new_prompt)
                    /\ PromptRecord(key, out.new_prompt) \in sysmem'
                    /\ sysmem' \ {PromptRecord(key, out.new_prompt)} \subseteq sysmem
                    /\ lastReflect'.aputs = 2
               ELSE /\ prompts' = prompts
                    /\ sysmem' = sysmem
                    /\ lastReflect'.aputs = 0
          /\ UNCHANGED << examples, email_memory, memstore >>]_vars

\* update_general ran with update_prompt true, and one with update_prompt
\* false had run before on a readable prompt
C12_Witness ==
  /\ lastReflect.n = 2
  /\ lastReflect.output.update_prompt
  /\ ~lastReflect.raised
  /\ lastReflect.aputs = 2
  /\ Cardinality(sysmem) = 1

\* the (assistant id, user id) pair of a config
Pair(cfg) == << Get(cfg.assistant_id, "default"), Get(cfg.user_id, "default_user") >>

MemoryCategories == {"memories", "contacts", "preferences"}

\* C13: under SpecMemory, every stored fact lies in a namespace (assistant
\* id, category, user id) of the config it was extracted for, the category
\* being memories, contacts or preferences; and every entry that
\* retrieve_relevant_memories returns for a config is a fact extracted for
\* the same (assistant id, user id) pair, found in the category its label
\* names.
C13_MemoriesStayWithTheirPair ==
  /\ \A i \in memstore :
       /\ Len(i.ns) = 3
       /\ << i.ns[1], i.ns[3] >> = Pair(i.value.cfg)
       /\ i.ns[2] \in MemoryCategories
  /\ \A n \in 1..Len(retrieved.results) :
       LET r == retrieved.results[n]
       IN /\ Pair(r.content.cfg) = Pair(retrieved.cfg)
          /\ \E i \in memstore :
               /\ i.value = r.content
               /\ i.ns = get_memory_namespace(retrieved.cfg,
                            IF r.label = "Memory" THEN "memories"
                            ELSE IF r.label = "Contact" THEN "contacts"
                            ELSE "preferences")

\* a retrieval returned facts while the store held facts of another user
\* of the same assistant
C13_Witness ==
  /\ Len(retrieved.results) > 0
  /\ \E i \in memstore :
       /\ Pair(i.value.cfg)[1] = Pair(retrieved.cfg)[1]
       /\ Pair(i.value.cfg)[2] # Pair(retrieved.cfg)[2]

\* C14: under SpecMemory, retrieve_relevant_memories returns at most limit
\* entries.
C14_AtMostLimit == Len(retrieved.results) <= retrieved.limit

\* a human response of the given type, as Resume builds it
HumanResponse(node, type) ==
  [node |-> node, type |-> type,
   args |-> IF type = "edit"
              THEN IF node = "send_email_draft" THEN DraftArgs("edited", "list")
                   ELSE [content |-> "edited", ignore |-> FALSE]
              ELSE NoArgs,
   text |-> IF type = "response" THEN "feedback" ELSE ""]

\* C15: the memory flag is the value of "memory" in the runtime config's
\* "configurable" when that key is there, and True otherwise; with the flag
\* False a human-review node, whatever the type of the human's response,
\* saves no email, processes no email into memory and creates no reflection
\* run, so the store and the run count never change, while the messages it
\* returns (or the error it raises) are those it returns with the flag True.
C15_MemoryFlagOff ==
  /\ [](/\ config.hasMemory => memory = config.memory
        /\ ~config.hasMemory => memory
        /\ \A rc \in AnyRuntimeConfigs :
             get_config(rc) = IF rc.configurable /\ rc.hasMemory THEN rc.memory ELSE TRUE
        /\ waiting =>
             \A type \in AnyResponseTypes :
               LET resp == HumanResponse(pc, type)
                   off == HumanReview(pc, messages, resp, FALSE, nextId)
                   on == HumanReview(pc, messages, resp, TRUE, nextId)
               IN /\ off.msgs = on.msgs
                  /\ off.raised = on.raised
                  /\ off.save = "none" /\ ~off.process /\ ~off.run)
  /\ [][~memory => UNCHANGED storeVars]_vars

\* with "memory": False in the config, the human edited a draft and nothing
\* was stored
C15_Witness ==
  /\ config = RuntimeConfig(TRUE, TRUE, FALSE)
  /\ ~memory
  /\ prev = "send_email_draft"
  /\ lastResp.type = "edit"
  /\ Len(messages) > 0
  /\ puts = 0 /\ runs = 0 /\ examples = {}

\* C16: a run is at END only right after mark_as_read_node, and
\* mark_as_read has then been called for the email.
C16_EndOnlyAfterMarkAsRead ==
  pc = END => prev = "mark_as_read_node" /\ markCalls > 0

\* a run ended after the model called Ignore
C16_Witness ==
  /\ pc = END
  /\ prev = "mark_as_read_node"
  /\ triage = "email"
  /\ markCalls = 1

\* C17: under SpecRouting, on every state (unknown or missing triage
\* value, empty message list, last message with no or several tool calls
\* included) each routing function returns one of its declared targets:
\* route_after_triage notify for a triage value it does not know,
\* take_action bad_tool_name unless the last message has exactly one tool
\* call, enter_after_human draft_response for an empty message list unless
\* the triage value is notify.
C17_RoutersTotal ==
  /\ prev = "route_after_triage" =>
       /\ pc \in {"draft_response", "mark_as_read_node", "notify"}
       /\ triage \notin TriageValues => pc = "notify"
  /\ prev = "take_action" =>
       /\ pc \in {"send_message", "rewrite", "mark_as_read_node", "find_meeting_time",
                   "send_cal_invite", "process_memory_node", "bad_tool_name"}
       /\ (messages = << >> \/ Len(Last(messages).calls) # 1) => pc = "bad_tool_name"
  /\ prev = "enter_after_human" =>
       /\ pc \in {"mark_as_read_node", "draft_response", "send_email_node",
                   "send_cal_invite_node"}
       /\ (messages = << >> /\ triage # "notify") => pc = "draft_response"

\* route_after_triage has answered for a run without a triage value
C17_Witness ==
  /\ prev = "route_after_triage"
  /\ triage = Missing
  /\ messages = << >>
  /\ pc = "notify"

\* C18: an execution of draft_response invokes the model at most MaxTries
\* times; it stops at the model's first response with exactly one tool
\* call, which is then the draft and the one message appended; when none of
\* the first MaxTries responses is valid, the last of them is the draft and
\* the message appended, and take_action sends it to bad_tool_name.
C18_DraftLoop ==
  /\ [](prev = "draft_response" =>
          /\ llmCalls \in 1..MaxTries
          /\ draft = Last(messages)
          /\ firstValid <= MaxTries =>
               llmCalls = firstValid /\ Len(draft.calls) = 1
          /\ firstValid > MaxTries =>
               llmCalls = MaxTries /\ Len(draft.calls) # 1 /\ pc = "bad_tool_name")
  /\ [][drafts' # drafts =>
          /\ Len(messages') = Len(messages) + 1
          /\ SubSeq(messages', 1, Len(messages)) = messages]_vars

\* the model gave no valid response in MaxTries tries, on the second draft
C18_Witness ==
  /\ prev = "draft_response"
  /\ drafts = 2
  /\ firstValid = MaxTries + 1
  /\ llmCalls = MaxTries
  /\ pc = "bad_tool_name"

\* C19: a response of draft_response with exactly one call of a tool that
\* draft_response offers is not routed to bad_tool_name.
C19_OfferedToolsRouted ==
  (/\ prev = "draft_response"
   /\ Len(draft.calls) = 1
   /\ draft.calls[1].name \in BaseTools \cup MemoryTools \cup {"Ignore"})
    => pc # "bad_tool_name"

\* C20: under LiveSpec, every run reaches a human interrupt or END.
C20_ReachesHumanOrEnd == <>(waiting \/ pc = END)

\* C20, amended: under LiveSpec, every run reaches a human interrupt or END
\* or comes back to draft_response again and again; it stays at no other
\* node.
C20_HumanOrEndOrDraftAgain ==
  []<>(waiting \/ pc = END \/ pc = "draft_response")

\* draft_response is entered again after bad_tool_name
C20_Witness ==
  /\ pc = "draft_response"
  /\ prev = "bad_tool_name"
  /\ Len(messages) = 1
  /\ messages[1].kind = "tool"

\* C21: triage_input leaves the message list empty, and an execution of
\* draft_response offers Ignore exactly when it is not the first one of the
\* run.
C21_FirstDraftNeverOffersIgnore ==
  /\ [][prev' = "triage_input" => messages' = << >>]_vars
  /\ [][drafts' # drafts => ("Ignore" \in Offered(messages) <=> drafts > 0)]_vars

\* C21, amended: triage_input leaves the message list empty, and an
\* execution of draft_response offers Ignore exactly when the message list
\* is not empty on entry, that is, when it is not the first one of the run
\* or a human has answered before it (triage notify, then the review at
\* notify): only a first execution that triage routes to directly does not
\* offer Ignore.
C21_IgnoreOfferedAfterAnyMessage ==
  /\ [][prev' = "triage_input" => messages' = << >>]_vars
  /\ [][drafts' # drafts =>
          /\ "Ignore" \in Offered(messages) <=> Len(messages) > 0
          /\ Len(messages) > 0 <=> (drafts > 0 \/ humans > 0)]_vars

\* the first draft_response of a run, entered after the human answered the
\* notification, was offered Ignore and called it
C21_Witness ==
  /\ prev = "draft_response"
  /\ drafts = 1
  /\ triage = "notify"
  /\ lastResp.type = "response"
  /\ Len(draft.calls) = 1
  /\ draft.calls[1].name = "Ignore"

\* C22: under SpecAnyType, a human-review node resumed with a response
\* raises exactly when the type of the response is not one its interrupt
\* config allows; when it raises, the run stops in error and neither the
\* messages nor the store nor the run count change.
C22_HandledEqualsAllowed ==
  [][humans' # humans =>
       /\ pc' = "ERROR" <=> lastResp'.type \notin Allowed(pc)
       /\ Allowed("send_message") = {"response", "ignore"}
       /\ Allowed("notify") = {"response", "ignore"}
       /\ Allowed("send_email_draft") = {"response", "ignore", "edit", "accept"}
       /\ Allowed("send_cal_invite") = {"response", "ignore", "edit", "accept"}
       /\ pc' = "ERROR" => UNCHANGED << messages, draft, triage, storeVars, gmailVars >>]_vars

\* send_message was resumed with an edit and raised; earlier in the run a
\* response had been handled
C22_Witness ==
  /\ pc = "ERROR"
  /\ lastResp.node = "send_message"
  /\ lastResp.type = "edit"
  /\ humans = 2

\* C23: the namespace (assistant_id, "triage_examples") holds at most one
\* triage example for the email of the run, however often save_email was
\* called for it.
C23_AtMostOneExample == Cardinality(examples) <= 1

\* C24: with memory enabled, a human-review node that handles a human
\* response stores exactly one triage example through save_email, labelled
\* "no" when the response is an ignore and "email" when it is a response, an
\* edit or an accept.
C24_LabelFollowsResponse ==
  [][(humans' # humans /\ memory /\ pc' # "ERROR") =>
       \E e \in examples' \ examples :
         /\ examples' = examples \cup {e}
         /\ e.triage = IF lastResp'.type = "ignore" THEN "no" ELSE "email"
         /\ (e.triage = "no") <=> (lastResp'.type = "ignore")]_vars

\* with memory enabled the human ignored a notification, and the example
\* stored for it is labelled "no"
C24_Witness ==
  /\ memory
  /\ prev = "notify"
  /\ lastResp.type = "ignore"
  /\ Cardinality(examples) = 1
  /\ \A e \in examples : e.triage = "no"

====
